---- MODULE Spec2Model ----
(***************************************************************************)
(* A model of gcp_pilot/datastore.py: the Manager of a Document kind over  *)
(* a key/value document store (lookup compilation, query execution with    *)
(* cursor pagination and `in` cross products, get/create/update/delete).   *)
(*                                                                         *)
(* Python values are one-field records, so that values of different types  *)
(* compare unequal instead of being incomparable:                          *)
(*   None -> [none |-> TRUE]     int n -> [int |-> n]                      *)
(*   str  -> [str |-> <<chars>>] list  -> [list |-> <<values>>]            *)
(* Keyword-argument names and operator names are always Python strings and *)
(* are kept as bare sequences of one-character strings.                    *)
(***************************************************************************)
EXTENDS Integers, Sequences, FiniteSets, TLC

VARIABLES
    store,          \* the kind's stored entities: key id -> property bag
    allocated,      \* ids the store's allocate_ids has handed out so far
    obj,            \* the caller's in-memory Document
    result,         \* what the last Manager/Document call did and returned
    fkey, fvalue,   \* the arguments of _build_filter
    chain,          \* the pages the store serves for one query
    itpc, cursor, empty, page, yielded, fetches, \* Manager._iterate's frame
    pc, ent, kw, log \* two interleaved Manager.update calls: position, entity read,
                    \* keyword arguments, and the order of their store reads and writes

crudVars == <<store, allocated, obj>>
filterVars == <<fkey, fvalue>>
iterVars == <<chain, itpc, cursor, empty, page, yielded, fetches>>
raceVars == <<pc, ent, kw, log>>
vars == <<store, allocated, obj, result, fkey, fvalue,
          chain, itpc, cursor, empty, page, yielded, fetches, pc, ent, kw, log>>

----------------------------------------------------------------------------
(* Python values *)

PyNone == [none |-> TRUE]
PyInt(n) == [int |-> n]
PyStr(chars) == [str |-> chars]
PyList(items) == [list |-> items]

IsNone(v) == DOMAIN v = {"none"}
IsInt(v) == DOMAIN v = {"int"}
IsStr(v) == DOMAIN v = {"str"}
IsList(v) == DOMAIN v = {"list"}

\* bool(v)
Truthy(v) ==
    IF IsNone(v) THEN FALSE
    ELSE IF IsInt(v) THEN v.int # 0
    ELSE IF IsStr(v) THEN v.str # <<>>
    ELSE v.list # <<>>

Min(a, b) == IF a <= b THEN a ELSE b

\* s.startswith(prefix, at i)
MatchAt(s, sep, i) ==
    /\ i + Len(sep) - 1 <= Len(s)
    /\ SubSeq(s, i, i + Len(sep) - 1) = sep

RECURSIVE SplitFrom(_, _, _, _)
SplitFrom(s, sep, i, cur) ==
    IF i > Len(s) THEN <<cur>>
    ELSE IF MatchAt(s, sep, i) THEN <<cur>> \o SplitFrom(s, sep, i + Len(sep), <<>>)
    ELSE SplitFrom(s, sep, i + 1, Append(cur, s[i]))

\* s.split(sep)
Split(s, sep) == SplitFrom(s, sep, 1, <<>>)

RECURSIVE Join(_, _)
\* sep.join(parts)
Join(sep, parts) ==
    IF parts = <<>> THEN <<>>
    ELSE IF Len(parts) = 1 THEN parts[1]
    ELSE parts[1] \o sep \o Join(sep, Tail(parts))

\* list(s): iterating a str yields its characters
CharsOf(s) == [i \in 1..Len(s) |-> <<s[i]>>]

SeqToSet(s) == {s[i] : i \in 1..Len(s)}

----------------------------------------------------------------------------
(* Names *)

DUNDER == <<"_", "_">>
DOT == <<".">>
HIGH_SENTINEL == "U+FFFD"

F_id == <<"i", "d">>
F_status == <<"s", "t", "a", "t", "u", "s">>
F_rank == <<"r", "a", "n", "k">>
F_status_x == <<"s", "t", "a", "t", "u", "s", ".", "x">>
F_bogus_sub == <<"b", "o", "g", "u", "s", ".", "s", "u", "b">>

OP_eq == <<"e", "q">>
OP_gt == <<"g", "t">>
OP_gte == <<"g", "t", "e">>
OP_lt == <<"l", "t">>
OP_lte == <<"l", "t", "e">>
OP_in == <<"i", "n">>
OP_startswith == <<"s", "t", "a", "r", "t", "s", "w", "i", "t", "h">>
OP_unknown == <<"u", "n", "k", "n", "o", "w", "n">>

N_eq == <<"=">>
N_gt == <<">">>
N_gte == <<">", "=">>
N_lt == <<"<">>
N_lte == <<"<", "=">>

DEFAULT_PK_FIELD == F_id
MAX_ITEMS_PER_OPERATIONS == 500

\* bounds of the model
MaxId == 2
MaxIn == 2
DefaultPageSize == 300
MaxRecords == 1200
MaxPages == 3
MaxPageItems == 2
MaxRank == 2

\* Manager.fields of the modelled Document kind: the synthesized id: int, then
\* status: str = None and rank: int = None
fields == [f \in {F_id, F_status, F_rank} |-> IF f = F_status THEN "str" ELSE "int"]
pk_field == DEFAULT_PK_FIELD

----------------------------------------------------------------------------
(* FilterCompiler *)

Pred(field_name, operator, value) ==
    [field |-> field_name, op |-> operator, value |-> value]

\* the module-level function object, as a dict value
FN_starts_with == [function |-> "_starts_with_operator"]

_starts_with_operator(lookup_fields, value) ==
    LET field_name == Join(DOT, lookup_fields)
    IN  << Pred(field_name, N_gte, value),
           Pred(field_name, N_lte, PyStr(Append(value.str, HIGH_SENTINEL))) >>

lookup_operators ==
    [op \in {OP_eq, OP_gt, OP_gte, OP_lt, OP_lte, OP_in, OP_startswith} |->
        CASE op = OP_eq -> PyStr(N_eq)
          [] op = OP_gt -> PyStr(N_gt)
          [] op = OP_gte -> PyStr(N_gte)
          [] op = OP_lt -> PyStr(N_lt)
          [] op = OP_lte -> PyStr(N_lte)
          [] op = OP_in -> PyStr(OP_in)
          [] op = OP_startswith -> FN_starts_with]

\* callable(v): of the values here, only a function object is
callable(v) == DOMAIN v = {"function"}

Ok(preds) == [err |-> "", preds |-> preds]
Raise(name) == [err |-> name, preds |-> <<>>]

\* `operator`: the lookup name itself, a str; None when the key has no suffix
OperatorOf(extra) == IF extra # <<>> THEN PyStr(extra[1]) ELSE PyNone

\* _build_filter after `field_name, *extra = key.split("__")` and `parts = field_name.split(".")`
BuildParsed(field_name, extra, parts, value) ==
    IF extra # <<>> /\ Len(extra) > 1 THEN Raise("UnsupportedFormatException")
    ELSE IF extra # <<>> /\ OperatorOf(extra).str \notin DOMAIN lookup_operators
        THEN Raise("UnsupportedFormatException")
    ELSE IF extra # <<>> /\ callable(OperatorOf(extra))
        THEN Ok(_starts_with_operator(CharsOf(field_name), value))
    ELSE IF Len(parts) > 1 /\ parts[1] \notin DOMAIN fields THEN Raise("ValidationError")
    ELSE Ok(<< Pred(field_name,
                    IF Truthy(OperatorOf(extra)) THEN OperatorOf(extra).str ELSE N_eq,
                    value) >>)

BuildSplit(split, value) ==
    BuildParsed(Head(split), Tail(split), Split(Head(split), DOT), value)

_build_filter(key, value) == BuildSplit(Split(key, DUNDER), value)

----------------------------------------------------------------------------
(* RecordMapper *)

\* Metadata.to_dict(obj): every declared field, _unbuild leaves None and scalars as they are
to_dict(o) == [f \in DOMAIN fields |-> o[f]]

\* Metadata.from_dict._build(klass, value) on None and on values of the declared type
_build(klass, value) ==
    IF IsNone(value) THEN value
    ELSE IF klass = "int" THEN PyInt(value.int)
    ELSE PyStr(value.str)

\* Metadata.from_dict(data): declared fields present in data; the rest keep the default None
from_dict(data) ==
    [f \in DOMAIN fields |-> IF f \in DOMAIN data THEN _build(fields[f], data[f]) ELSE PyNone]

Entity(key, bag) == [key |-> key, bag |-> bag]

from_entity(entity) ==
    LET data == IF pk_field \in DOMAIN entity.bag THEN entity.bag
                ELSE [f \in DOMAIN entity.bag \cup {pk_field} |->
                        IF f = pk_field THEN PyInt(entity.key) ELSE entity.bag[f]]
    IN  from_dict(data)

\* Manager.build_key(pk); `fresh` is the id allocate_ids hands out when it is called
build_key(pk, fresh) ==
    IF Truthy(pk) THEN pk.int ELSE fresh

----------------------------------------------------------------------------
(* The store's client, as the Manager uses it *)

\* client.get(key): the entity, or None
ClientHas(st, key) == key \in DOMAIN st
ClientGet(st, key) == Entity(key, st[key])

\* client.put(entity)
ClientPut(st, entity) ==
    [k \in DOMAIN st \cup {entity.key} |-> IF k = entity.key THEN entity.bag ELSE st[k]]

\* client.delete(key) and client.delete_multi(keys)
ClientDeleteMulti(st, keys) == [k \in DOMAIN st \ keys |-> st[k]]
ClientDelete(st, key) == ClientDeleteMulti(st, {key})

\* the comparison symbols Query.add_filter accepts; any other raises ValueError
OPERATORS == {N_eq, N_gt, N_gte, N_lt, N_lte}

Compare(a, op, b) ==
    IF op = N_eq THEN a = b
    ELSE IF ~(IsInt(a) /\ IsInt(b)) THEN FALSE
    ELSE IF op = N_gt THEN a.int > b.int
    ELSE IF op = N_gte THEN a.int >= b.int
    ELSE IF op = N_lt THEN a.int < b.int
    ELSE a.int <= b.int

Matches(bag, filters) ==
    \A i \in 1..Len(filters) :
        /\ filters[i].field \in DOMAIN bag
        /\ Compare(bag[filters[i].field], filters[i].op, filters[i].value)

MaxOf(S) == CHOOSE m \in S : \A x \in S : x <= m

\* the keys of the entities a query with these filters finds, in key order
QueryResults(st, filters) ==
    IF DOMAIN st = {} THEN <<>>
    ELSE SelectSeq([i \in 1..MaxOf(DOMAIN st) |-> i],
                   LAMBDA k : k \in DOMAIN st /\ Matches(st[k], filters))

\* the pages the store serves for a result list, `limit` items a page
Paginate(results, limit) ==
    IF results = <<>> THEN << <<>> >>
    ELSE [i \in 1..((Len(results) + limit - 1) \div limit) |->
            SubSeq(results, (i - 1) * limit + 1, Min(i * limit, Len(results)))]

PageAt(ch, i) == [items |-> ch[i], token |-> IF i < Len(ch) THEN PyInt(i) ELSE PyNone]

\* query.fetch(start_cursor=cursor, limit=page_size): its first page and next_page_token
FetchPage(ch, cur) == PageAt(ch, IF IsNone(cur) THEN 1 ELSE cur.int + 1)

----------------------------------------------------------------------------
(* QueryExecutor *)

\* the loop stops after the first page, whatever token came back
IsEmpty_after_first_page(cur) == TRUE

\* `empty = not bool(cursor)`
IsEmpty(cur) == ~Truthy(cur)

RECURSIVE IterateFrom(_, _)
RECURSIVE IteratePage(_, _)
\* one turn of Manager._iterate's loop: yield the page, go on while a token came back
IteratePage(ch, p) ==
    p.items \o (IF IsEmpty(p.token) THEN <<>> ELSE IterateFrom(ch, p.token))

\* Manager._iterate run to exhaustion from `cur`: everything it yields
IterateFrom(ch, cur) == IteratePage(ch, FetchPage(ch, cur))

PageLimit(page_size) == IF IsNone(page_size) THEN DefaultPageSize ELSE page_size.int

_iterate(st, filters, page_size) ==
    IterateFrom(Paginate(QueryResults(st, filters), PageLimit(page_size)), PyNone)

\* _chunks with the slice end one short: lst[i : i + n - 1]
_chunks_short_slice(lst, n) ==
    [c \in 1..((Len(lst) + n - 1) \div n) |->
        SubSeq(lst, (c - 1) * n + 1, Min((c - 1) * n + n - 1, Len(lst)))]

\* _chunks(lst, n)
_chunks(lst, n) ==
    [c \in 1..((Len(lst) + n - 1) \div n) |->
        SubSeq(lst, (c - 1) * n + 1, Min((c - 1) * n + n, Len(lst)))]

RECURSIVE AddFilters(_, _, _)
\* Manager.query, the inner loop over one lookup's predicates; acc is [err, filters, cross]
AddFilters(preds, j, acc) ==
    IF j > Len(preds) \/ acc.err # "" THEN acc
    ELSE IF preds[j].op = OP_in
        THEN AddFilters(preds, j + 1, [acc EXCEPT !.cross = Append(@, preds[j])])
    ELSE IF preds[j].op \notin OPERATORS
        THEN [acc EXCEPT !.err = "ValueError"]
    ELSE AddFilters(preds, j + 1, [acc EXCEPT !.filters = Append(@, preds[j])])

\* Manager.query, the body of the loop over kwargs, given _build_filter's answer
AddLookup(all_filters, acc) ==
    IF all_filters.err # "" THEN [acc EXCEPT !.err = all_filters.err]
    ELSE AddFilters(all_filters.preds, 1, acc)

RECURSIVE ParseLookups(_, _, _)
\* Manager.query, "parse lookup args": direct filters go to query.add_filter, `in` ones wait
ParseLookups(kwargs, i, acc) ==
    IF i > Len(kwargs) \/ acc.err # "" THEN acc
    ELSE ParseLookups(kwargs, i + 1,
                      AddLookup(_build_filter(kwargs[i].key, kwargs[i].value), acc))

\* options[name] for one cross filter: one equality per value
OptionsOf(c) == [j \in 1..Len(c.value.list) |-> Pred(c.field, N_eq, c.value.list[j])]

RECURSIVE Flatten(_)
Flatten(ss) == IF ss = <<>> THEN <<>> ELSE Head(ss) \o Flatten(Tail(ss))

ProductWith(first, rest) ==
    Flatten([a \in 1..Len(first) |-> [b \in 1..Len(rest) |-> <<first[a]>> \o rest[b]]])

RECURSIVE Product(_)
\* itertools.product(*lists): the first list varies slowest
Product(lists) ==
    IF lists = <<>> THEN << <<>> >> ELSE ProductWith(Head(lists), Product(Tail(lists)))

\* the items of `items` not in `found` and not repeated, in order
RECURSIVE Unseen(_, _)
Unseen(items, found) ==
    IF items = <<>> THEN <<>>
    ELSE IF Head(items) \in found THEN Unseen(Tail(items), found)
    ELSE <<Head(items)>> \o Unseen(Tail(items), found \cup {Head(items)})

RECURSIVE RunCombinations(_, _, _, _, _, _, _)
RECURSIVE RunQuery(_, _, _, _, _, _, _)
RECURSIVE YieldNew(_, _, _, _, _, _, _, _)
\* Manager.query, the loop over combinations.  `current_query = query` is an alias, so
\* add_filter acts on the one query object: `filters` is carried from one combination to
\* the next.  add_filter returns the query it was called on.
RunCombinations(st, combos, i, filters, found, out, page_size) ==
    IF i > Len(combos) THEN [err |-> "", keys |-> out]
    ELSE RunQuery(st, combos, i, filters \o combos[i], found, out, page_size)

\* ... `for item in self._iterate(query=current_query, ...)`
RunQuery(st, combos, i, now, found, out, page_size) ==
    YieldNew(st, combos, i, now, found, out, Unseen(_iterate(st, now, page_size), found),
             page_size)

\* ... `if item.id not in found: yield item; found.add(item.id)`
YieldNew(st, combos, i, now, found, out, got, page_size) ==
    RunCombinations(st, combos, i + 1, now, found \cup SeqToSet(got), out \o got,
                    page_size)

\* Manager.query after the lookups are parsed
RunParsed(st, parsed, page_size) ==
    IF parsed.err # "" THEN [err |-> parsed.err, keys |-> <<>>]
    ELSE IF parsed.cross = <<>>
        THEN [err |-> "", keys |-> _iterate(st, parsed.filters, page_size)]
    ELSE RunCombinations(st, Product([c \in 1..Len(parsed.cross) |-> OptionsOf(parsed.cross[c])]),
                         1, parsed.filters, {}, <<>>, page_size)

\* Manager.query(page_size=..., **kwargs) consumed to its end: the keys of the entities it
\* yields, and the exception that ended it, if any
query(st, kwargs, page_size) ==
    RunParsed(st, ParseLookups(kwargs, 1, [err |-> "", filters |-> <<>>, cross |-> <<>>]),
              page_size)

Decode(st, q) ==
    [err |-> q.err, keys |-> q.keys,
     items |-> [i \in 1..Len(q.keys) |-> from_entity(ClientGet(st, q.keys[i]))]]

\* Manager.filter consumed to its end
filter(st, kwargs, page_size) == Decode(st, query(st, kwargs, page_size))

----------------------------------------------------------------------------
(* RecordStore: Manager.get / create / update / delete as functions of the store *)

Kw(key, value) == [key |-> key, value |-> value]
HasKw(kwargs, key) == \E i \in 1..Len(kwargs) : kwargs[i].key = key
KwValue(kwargs, key) == kwargs[CHOOSE i \in 1..Len(kwargs) : kwargs[i].key = key].value

\* Manager.get, the branch that fetches by key
GetByKey(st, key) ==
    IF ClientHas(st, key) THEN [err |-> "", items |-> <<from_entity(ClientGet(st, key))>>]
    ELSE [err |-> "DoesNotExist", items |-> <<>>]

\* Manager.get, the loop over self.filter(**kwargs): "we filter and hope for just one object"
GetOne(found) ==
    IF Len(found.items) >= 2 THEN [err |-> "MultipleObjectsFound", items |-> <<>>]
    ELSE IF found.err # "" THEN [err |-> found.err, items |-> <<>>]
    ELSE IF found.items = <<>> THEN [err |-> "DoesNotExist", items |-> <<>>]
    ELSE [err |-> "", items |-> found.items]

\* Manager.get(**kwargs): the exception raised ("" for none) and the record returned
get(st, kwargs, fresh) ==
    IF HasKw(kwargs, pk_field) THEN GetByKey(st, build_key(KwValue(kwargs, pk_field), fresh))
    ELSE GetOne(filter(st, kwargs, PyNone))

\* the generated key is never written back to the record
WithKey_not_written_back(o, key) == o

\* Manager.to_entity(obj) for the key build_key gave: obj gets the key when it had none
WithKey(o, key) ==
    IF ~Truthy(o[pk_field]) THEN [o EXCEPT ![pk_field] = PyInt(key)] ELSE o

to_entity(o, fresh) == Entity(build_key(o[pk_field], fresh), to_dict(WithKey(o, build_key(o[pk_field], fresh))))

\* Manager.create after to_entity: put, then fill the key in if obj still has none
PutCreated(st, o, entity) ==
    [store |-> ClientPut(st, entity), obj |-> WithKey(WithKey(o, entity.key), entity.key),
     key |-> entity.key]

\* Manager.create(obj): the store and the in-memory record afterwards
create(st, o, fresh) == PutCreated(st, o, to_entity(o, fresh))

\* the fields are never merged into the entity
DictUpdate_not_merged(bag, kwargs) == bag

\* entity.update(as_data): dict.update
DictUpdate(bag, kwargs) ==
    [f \in DOMAIN bag \cup {kwargs[i].key : i \in 1..Len(kwargs)} |->
        IF HasKw(kwargs, f) THEN KwValue(kwargs, f) ELSE bag[f]]

\* entity.update(as_data) on the entity that was read
Merged(entity, kwargs) == Entity(entity.key, DictUpdate(entity.bag, kwargs))

\* Manager.update, `if kwargs:` with the entity found: merge and put
MergePut(st, key, kwargs) ==
    IF kwargs # <<>> THEN ClientPut(st, Merged(ClientGet(st, key), kwargs)) ELSE st

Returned(st, got) == [store |-> st, err |-> got.err, items |-> got.items]

\* Manager.update, `return self.get(id=pk)`
ReturnGet(st, pk, fresh) == Returned(st, get(st, <<Kw(F_id, pk)>>, fresh))

\* Manager.update(pk, **kwargs); None.update raises AttributeError
update(st, pk, kwargs, fresh) ==
    IF kwargs # <<>> /\ ~ClientHas(st, build_key(pk, fresh))
    THEN [store |-> st, err |-> "AttributeError", items |-> <<>>]
    ELSE ReturnGet(MergePut(st, build_key(pk, fresh), kwargs), pk, fresh)

\* Manager.delete without a key: one delete_multi per chunk of the keys
DeleteKeys(st, keys) ==
    [store |-> ClientDeleteMulti(st, SeqToSet(keys)),
     calls |-> _chunks(keys, MAX_ITEMS_PER_OPERATIONS)]

\* Manager.delete(pk): the store afterwards and the delete_multi calls issued
delete(st, pk) ==
    IF Truthy(pk) THEN [store |-> ClientDelete(st, build_key(pk, 0)), calls |-> <<>>]
    ELSE DeleteKeys(st, query(st, <<>>, PyNone).keys)

----------------------------------------------------------------------------
(* Inputs *)

Ids == 1..MaxId
PKs == {PyNone} \cup {PyInt(n) : n \in Ids}
S_active == PyStr(<<"active">>)
S_inactive == PyStr(<<"inactive">>)
Statuses == {S_active, S_inactive}
Doc(i, s, r) == [f \in DOMAIN fields |-> IF f = F_id THEN i ELSE IF f = F_status THEN s ELSE r]
Docs == {Doc(i, s, PyNone) : i \in PKs, s \in Statuses}

Doc0 == Doc(PyNone, S_active, PyNone)
NoPage == [items |-> <<>>, token |-> PyNone]

Lookup(field, op) == field \o DUNDER \o op

RECURSIVE SeqsUpTo(_, _)
SeqsUpTo(S, n) ==
    IF n = 0 THEN {<<>>}
    ELSE LET shorter == SeqsUpTo(S, n - 1)
         IN  shorter \cup {Append(q, x) : q \in shorter, x \in S}

\* the value lists of an `in` lookup: one or more ids, repeats allowed
InLists == {PyList(v) : v \in SeqsUpTo({PyInt(n) : n \in Ids}, MaxIn) \ {<<>>}}

\* lookups without an `in`
DirectKwargs ==
    {<<>>, <<Kw(F_status, S_active)>>, <<Kw(Lookup(F_id, OP_gte), PyInt(1))>>,
     <<Kw(Lookup(F_status, OP_startswith), S_active)>>}

\* one `in` lookup, alone or with a direct equality filter
CrossKwargs ==
    {<<Kw(Lookup(F_id, OP_in), v)>> : v \in InLists}
    \cup {<<Kw(Lookup(F_id, OP_in), v), Kw(F_status, S_active)>> : v \in InLists}

PageSizes == {PyNone, PyInt(1)}

\* (kwargs, page_size)
FilterCalls == {<<k, ps>> : k \in DirectKwargs \cup CrossKwargs, ps \in PageSizes}

GetKwargs == DirectKwargs \cup CrossKwargs \cup {<<Kw(F_id, pk)>> : pk \in PKs}

UpdateKwargs ==
    {<<>>}
    \cup {<<Kw(F_status, s)>> : s \in Statuses}
    \cup {<<Kw(F_id, PyInt(n))>> : n \in Ids}

\* allocate_ids hands out an id it has not handed out before
FreshIds(needed) == IF needed THEN Ids \ allocated ELSE {0}
Allocate(needed, fresh) == IF needed THEN allocated \cup {fresh} ELSE allocated

Res(op, pk, kwargs, page_size, err, keys, items, dcalls) ==
    [op |-> op, pk |-> pk, kwargs |-> kwargs, page_size |-> page_size, err |-> err,
     keys |-> keys, items |-> items, calls |-> dcalls]

NoRes(op) == Res(op, PyNone, <<>>, PyNone, "", <<>>, <<>>, <<>>)

----------------------------------------------------------------------------
(* Actions: one call of the public interface each *)

\* the caller assigns the in-memory record's attributes
SetAttr ==
    /\ \E o \in Docs : obj' = o /\ o # obj
    /\ result' = NoRes("setattr")
    /\ UNCHANGED <<store, allocated, filterVars, iterVars, raceVars>>

Created(op, c, pk, fresh) ==
    /\ store' = c.store
    /\ obj' = c.obj
    /\ allocated' = Allocate(~Truthy(pk), fresh)
    /\ result' = Res(op, pk, <<>>, PyNone, "", <<c.key>>, <<c.obj>>, <<>>)
    /\ UNCHANGED <<filterVars, iterVars, raceVars>>

Create ==
    \E fresh \in FreshIds(~Truthy(obj[pk_field])) :
        Created("create", create(store, obj, fresh), obj[pk_field], fresh)

\* Document.save()
Save ==
    \E fresh \in FreshIds(~Truthy(obj[pk_field])) :
        Created("save", create(store, obj, fresh), obj[pk_field], fresh)

Updated(u, pk, kwargs, fresh) ==
    /\ store' = u.store
    /\ allocated' = Allocate(~Truthy(pk), fresh)
    /\ result' = Res("update", pk, kwargs, PyNone, u.err, <<>>, u.items, <<>>)
    /\ UNCHANGED <<obj, filterVars, iterVars, raceVars>>

Update ==
    \E pk \in PKs \ {PyNone}, kwargs \in UpdateKwargs :
    \E fresh \in FreshIds(~Truthy(pk)) :
        Updated(update(store, pk, kwargs, fresh), pk, kwargs, fresh)

Deleted(op, d, pk) ==
    /\ store' = d.store
    /\ result' = Res(op, pk, <<>>, PyNone, "", <<>>, <<>>, d.calls)
    /\ UNCHANGED <<obj, allocated, filterVars, iterVars, raceVars>>

Delete(pks) == \E pk \in pks : Deleted("delete", delete(store, pk), pk)

\* Document.delete()
DocumentDelete == Deleted("Document.delete", delete(store, obj[F_id]), obj[F_id])

NeedsKey(kwargs) == HasKw(kwargs, pk_field) /\ ~Truthy(KwValue(kwargs, pk_field))

Got(g, kwargs, fresh) ==
    /\ allocated' = Allocate(NeedsKey(kwargs), fresh)
    /\ result' = Res("get", PyNone, kwargs, PyNone, g.err, <<>>, g.items, <<>>)
    /\ UNCHANGED <<store, obj, filterVars, iterVars, raceVars>>

Get ==
    \E kwargs \in GetKwargs :
    \E fresh \in FreshIds(NeedsKey(kwargs)) :
        Got(get(store, kwargs, fresh), kwargs, fresh)

Filtered(f, c) ==
    /\ result' = Res("filter", PyNone, c[1], c[2], f.err, f.keys, f.items, <<>>)
    /\ UNCHANGED <<store, obj, allocated, filterVars, iterVars, raceVars>>

Filter == \E c \in FilterCalls : Filtered(filter(store, c[1], c[2]), c)

IdleCrud == store = <<>> /\ allocated = {} /\ obj = Doc0
IdleFilter == fkey = <<>> /\ fvalue = PyNone
IdleIter ==
    /\ chain = <<>> /\ itpc = "idle" /\ cursor = PyNone /\ empty = FALSE
    /\ page = NoPage /\ yielded = <<>> /\ fetches = <<>>
IdleRace == pc = <<>> /\ ent = <<>> /\ kw = <<>> /\ log = <<>>

Init ==
    /\ IdleCrud
    /\ result = NoRes("init")
    /\ IdleFilter /\ IdleIter /\ IdleRace

\* the calls that write: the record store's life cycle
Next ==
    \/ SetAttr
    \/ Create
    \/ Save
    \/ Update
    \/ Delete(PKs)
    \/ DocumentDelete

Spec == Init /\ [][Next]_vars

NextQuery == Next \/ Filter

SpecQuery == Init /\ [][NextQuery]_vars

NextGet == Next \/ Get

SpecGet == Init /\ [][NextGet]_vars

----------------------------------------------------------------------------
(* Bulk delete: a kind holding up to MaxRecords records *)

BulkSizes ==
    {0, 1, MaxRecords}
    \cup {m * MAX_ITEMS_PER_OPERATIONS + d : m \in 1..2, d \in {-1, 0, 1}}

BulkPKs == {PyNone} \cup {PyInt(n) : n \in {1, 2, MAX_ITEMS_PER_OPERATIONS}}

InitBulk ==
    /\ \E n \in BulkSizes : store = [k \in 1..n |-> to_dict(WithKey(Doc0, k))]
    /\ allocated = {}
    /\ obj = Doc0
    /\ result = NoRes("init")
    /\ IdleFilter /\ IdleIter /\ IdleRace

NextBulk == Delete(BulkPKs)

SpecBulk == InitBulk /\ [][NextBulk]_vars

----------------------------------------------------------------------------
(* Lookup compilation: _build_filter on one (key, value) *)

Suffixes ==
    {OP_eq, OP_gt, OP_gte, OP_lt, OP_lte, OP_in, OP_startswith, OP_unknown,
     <<>>, OP_gt \o DUNDER \o OP_lt}

LookupKeys ==
    {F_id, F_status, F_status_x, F_bogus_sub}
    \cup {Lookup(f, op) : f \in {F_id, F_status, F_status_x, F_bogus_sub}, op \in Suffixes}

LookupValues ==
    {PyStr(<<"a", "b">>), PyStr(<<>>), PyStr(<<"7">>), PyList(<<PyStr(<<"a">>), PyStr(<<"b">>)>>)}

InitFilter ==
    /\ fkey \in LookupKeys
    /\ fvalue \in LookupValues
    /\ result = NoRes("init")
    /\ IdleCrud /\ IdleIter /\ IdleRace

Built(bf) ==
    /\ result' = Res("_build_filter", PyNone, <<>>, PyNone, bf.err, <<>>, bf.preds, <<>>)
    /\ UNCHANGED <<crudVars, filterVars, iterVars, raceVars>>

BuildFilter ==
    /\ result.op = "init"
    /\ Built(_build_filter(fkey, fvalue))

NextFilter == BuildFilter

SpecFilter == InitFilter /\ [][NextFilter]_vars

----------------------------------------------------------------------------
(* Manager._iterate, step by step, over a chain of pages the store serves *)

RECURSIVE SumTo(_, _)
SumTo(lens, n) == IF n = 0 THEN 0 ELSE lens[n] + SumTo(lens, n - 1)

\* pages of the given lengths holding the items 1, 2, 3, ... in order
ChainOf(lens) == [i \in 1..Len(lens) |-> [j \in 1..lens[i] |-> SumTo(lens, i - 1) + j]]

Chains == {ChainOf(lens) : lens \in SeqsUpTo(0..MaxPageItems, MaxPages) \ {<<>>}}

InitIter ==
    /\ chain \in Chains
    /\ itpc = "loop"
    /\ cursor = PyNone
    /\ empty = FALSE
    /\ page = NoPage
    /\ yielded = <<>>
    /\ fetches = <<>>
    /\ result = NoRes("init")
    /\ IdleCrud /\ IdleFilter /\ IdleRace

\* `while not empty:` entered; query.fetch(start_cursor=cursor, ...) and next(pages, [])
IterFetch ==
    /\ itpc = "loop" /\ ~empty
    /\ page' = FetchPage(chain, cursor)
    /\ fetches' = Append(fetches, cursor)
    /\ itpc' = "page"
    /\ UNCHANGED <<chain, cursor, empty, yielded, result, crudVars, filterVars, raceVars>>

\* `for item in page: yield item`
IterYield ==
    /\ itpc = "page" /\ page.items # <<>>
    /\ yielded' = Append(yielded, Head(page.items))
    /\ page' = [page EXCEPT !.items = Tail(@)]
    /\ UNCHANGED <<chain, itpc, cursor, empty, fetches, result, crudVars, filterVars, raceVars>>

\* `cursor = query_iter.next_page_token; empty = not bool(cursor)`
IterAdvance ==
    /\ itpc = "page" /\ page.items = <<>>
    /\ cursor' = page.token
    /\ empty' = IsEmpty(page.token)
    /\ itpc' = "loop"
    /\ UNCHANGED <<chain, page, yielded, fetches, result, crudVars, filterVars, raceVars>>

\* `while not empty:` left: the generator is exhausted
IterReturn ==
    /\ itpc = "loop" /\ empty
    /\ itpc' = "done"
    /\ UNCHANGED <<chain, cursor, empty, page, yielded, fetches, result, crudVars, filterVars, raceVars>>

NextIter == IterFetch \/ IterYield \/ IterAdvance \/ IterReturn

\* the consumer drains the generator: a step that can be taken is taken
SpecIter == InitIter /\ [][NextIter]_vars /\ WF_vars(NextIter)

----------------------------------------------------------------------------
(* Two Manager.update calls on one key, interleaved at their store round trips *)

Procs == {1, 2}
RacePk == PyInt(1)
Bag0 == to_dict(Doc(RacePk, S_active, PyNone))

RaceKwargs ==
    {<<Kw(F_status, s)>> : s \in Statuses} \cup {<<Kw(F_rank, PyInt(n))>> : n \in 1..MaxRank}

InitRace ==
    /\ store \in {<<>>, [k \in {RacePk.int} |-> Bag0]}
    /\ allocated = {}
    /\ obj = Doc0
    /\ result = NoRes("init")
    /\ pc = [p \in Procs |-> "start"]
    /\ ent = [p \in Procs |-> PyNone]
    /\ kw \in [Procs -> RaceKwargs]
    /\ log = <<>>
    /\ IdleFilter /\ IdleIter

\* `entity = self.get_client().get(key=self.build_key(pk=pk))`
UGet(p) ==
    /\ pc[p] = "start"
    /\ ent' = [ent EXCEPT ![p] = IF ClientHas(store, build_key(RacePk, 0))
                                     THEN ClientGet(store, build_key(RacePk, 0)) ELSE PyNone]
    /\ log' = Append(log, <<"read", p>>)
    /\ pc' = [pc EXCEPT ![p] = "read"]
    /\ UNCHANGED <<store, allocated, obj, result, kw, filterVars, iterVars>>

\* `entity.update(as_data); self.get_client().put(entity=entity)`
UPut(p) ==
    /\ pc[p] = "read" /\ ~IsNone(ent[p])
    /\ store' = ClientPut(store, Merged(ent[p], kw[p]))
    /\ log' = Append(log, <<"write", p>>)
    /\ pc' = [pc EXCEPT ![p] = "written"]
    /\ UNCHANGED <<allocated, obj, result, ent, kw, filterVars, iterVars>>

\* `entity.update(as_data)` on None raises AttributeError
UFail(p) ==
    /\ pc[p] = "read" /\ IsNone(ent[p])
    /\ pc' = [pc EXCEPT ![p] = "error"]
    /\ result' = Res("update", RacePk, kw[p], PyNone, "AttributeError", <<>>, <<>>, <<>>)
    /\ UNCHANGED <<store, allocated, obj, ent, kw, log, filterVars, iterVars>>

Finished(p, r) ==
    /\ pc' = [pc EXCEPT ![p] = "done"]
    /\ result' = Res("update", RacePk, kw[p], PyNone, r.err, <<>>, r.items, <<>>)
    /\ UNCHANGED <<store, allocated, obj, ent, kw, log, filterVars, iterVars>>

\* `return self.get(id=pk)`
UReturn(p) ==
    /\ pc[p] = "written"
    /\ Finished(p, ReturnGet(store, RacePk, 0))

NextRace == \E p \in Procs : UGet(p) \/ UPut(p) \/ UFail(p) \/ UReturn(p)

SpecRace == InitRace /\ [][NextRace]_vars

----------------------------------------------------------------------------
(* What the lookups mean, stated without the compiler: used by the properties below *)

KeyField(key) == Head(Split(key, DUNDER))
KeyOp(key) == IF Len(Split(key, DUNDER)) = 1 THEN OP_eq ELSE Split(key, DUNDER)[2]
IsPlainKey(key) == Len(Split(key, DUNDER)) = 1
IsInKey(key) == Len(Split(key, DUNDER)) = 2 /\ KeyOp(key) = OP_in

IsPrefix(a, b) == Len(a) <= Len(b) /\ SubSeq(b, 1, Len(a)) = a

NativeOf(op) ==
    CASE op = OP_eq -> N_eq
      [] op = OP_gt -> N_gt
      [] op = OP_gte -> N_gte
      [] op = OP_lt -> N_lt
      [] op = OP_lte -> N_lte

LookupHolds(bag, key, value) ==
    /\ KeyField(key) \in DOMAIN bag
    /\ LET x == bag[KeyField(key)]
           op == KeyOp(key)
       IN  CASE op = OP_eq -> x = value
             [] op = OP_in -> \E j \in 1..Len(value.list) : x = value.list[j]
             [] op = OP_startswith -> IsStr(x) /\ IsStr(value) /\ IsPrefix(value.str, x.str)
             [] op = OP_gt -> IsInt(x) /\ x.int > value.int
             [] op = OP_gte -> IsInt(x) /\ x.int >= value.int
             [] op = OP_lt -> IsInt(x) /\ x.int < value.int
             [] op = OP_lte -> IsInt(x) /\ x.int <= value.int

Matching(st, kwargs) ==
    {k \in DOMAIN st : \A i \in 1..Len(kwargs) : LookupHolds(st[k], kwargs[i].key, kwargs[i].value)}

\* one `in` lookup with at least one value, every other lookup a direct equality
OneInWithEqualities(kwargs) ==
    /\ Cardinality({i \in 1..Len(kwargs) : IsInKey(kwargs[i].key)}) = 1
    /\ \A i \in 1..Len(kwargs) :
        \/ IsPlainKey(kwargs[i].key)
        \/ IsInKey(kwargs[i].key) /\ kwargs[i].value.list # <<>>

----------------------------------------------------------------------------
(* Properties *)

\* C1: filter/query with one `in` lookup over a value list V and direct equality filters
\* yields exactly the stored records that satisfy every direct filter and whose `in`
\* field equals some member of V, each exactly once, for every V with one or more values.
C1_InLookupYieldsEachMatchOnce ==
    (result.op = "filter" /\ OneInWithEqualities(result.kwargs)) =>
        /\ result.err = ""
        /\ SeqToSet(result.keys) = Matching(store, result.kwargs)
        /\ Len(result.keys) = Cardinality(Matching(store, result.kwargs))

\* C2: a delete that targets one record (Manager.delete(pk) given a primary-key value, or
\* Document.delete()) removes at most the record stored under that key and leaves every
\* other stored record in place, whatever the primary-key value, unsaved records included.
C2_DeleteTouchesOnlyItsRecord ==
    [][(\/ result'.op = "Document.delete"
        \/ result'.op = "delete" /\ ~IsNone(result'.pk))
       => \A k \in DOMAIN store :
            \/ IsInt(result'.pk) /\ result'.pk.int = k
            \/ k \in DOMAIN store' /\ store'[k] = store[k]]_vars

\* C3: delete() with no key on a kind holding N records issues exactly ceil(N / 500)
\* delete_multi calls, each of at most 500 keys and all but the last of exactly 500,
\* every stored key is in exactly one call, and no record of the kind remains.
C3_BulkDeleteBatches ==
    [][(result'.op = "delete" /\ IsNone(result'.pk))
       => LET n == Cardinality(DOMAIN store)
              c == result'.calls
          IN  /\ Len(c) = (n + 499) \div 500
              /\ \A i \in 1..Len(c) : Len(c[i]) <= 500 /\ Len(c[i]) >= 1
              /\ \A i \in 1..(Len(c) - 1) : Len(c[i]) = 500
              /\ Len(Flatten(c)) = n
              /\ SeqToSet(Flatten(c)) = DOMAIN store
              /\ DOMAIN store' = {}]_vars

C3_Witness ==
    /\ result.op = "delete" /\ IsNone(result.pk)
    /\ Len(result.calls) = 3
    /\ Len(result.calls[1]) = 500 /\ Len(result.calls[2]) = 500 /\ Len(result.calls[3]) = 200
    /\ DOMAIN store = {}

\* C4: _build_filter on `field__startswith=value` returns exactly the two predicates
\* (field, ">=", value) and (field, "<=", value + U+FFFD), and so hands the query no
\* predicate whose operator is `startswith`.
C4_StartswithIsTwoRangePredicates ==
    (/\ result.op = "_build_filter"
     /\ Len(Split(fkey, DUNDER)) = 2 /\ KeyOp(fkey) = OP_startswith
     /\ KeyField(fkey) \in {F_id, F_status, F_status_x}
     /\ IsStr(fvalue))
    => /\ result.err = ""
       /\ result.items = << Pred(KeyField(fkey), N_gte, fvalue),
                            Pred(KeyField(fkey), N_lte, PyStr(fvalue.str \o <<HIGH_SENTINEL>>)) >>
       /\ \A i \in 1..Len(result.items) : result.items[i].op # OP_startswith

\* C5: for `field__op` with op in {eq, gt, gte, lt, lte}, _build_filter returns exactly one
\* predicate (field, native, value) with native taken from the lookup-operator table; a key
\* with no suffix yields "="; every predicate meant for add_filter carries a native symbol.
C5_ComparisonLookupsUseNativeSymbols ==
    (/\ result.op = "_build_filter"
     /\ Len(Split(fkey, DUNDER)) <= 2
     /\ KeyOp(fkey) \in {OP_eq, OP_gt, OP_gte, OP_lt, OP_lte}
     /\ KeyField(fkey) \in {F_id, F_status, F_status_x})
    => /\ result.err = ""
       /\ result.items = << Pred(KeyField(fkey), NativeOf(KeyOp(fkey)), fvalue) >>
       /\ \A i \in 1..Len(result.items) : result.items[i].op \in {N_eq, N_gt, N_gte, N_lt, N_lte}

\* C6: create on a record whose primary key is unset leaves the in-memory record with a
\* primary key equal to the key the record is stored under; that key differs from every
\* key assigned before, so a second create of the same record after clearing its key
\* leaves the record stored by the first create in place.
C6_CreateAssignsUnusedKey ==
    [][(result'.op \in {"create", "save"} /\ ~Truthy(result'.pk))
       => LET key == result'.keys[1]
          IN  /\ Truthy(obj'[F_id])
              /\ obj'[F_id] = PyInt(key)
              /\ key \in DOMAIN store'
              /\ store'[key] = obj'
              /\ key \notin allocated
              /\ \A k \in allocated \cap DOMAIN store :
                    k \in DOMAIN store' /\ store'[k] = store[k]]_vars

C6_Witness ==
    /\ result.op = "create" /\ ~Truthy(result.pk)
    /\ obj[F_id] = PyInt(result.keys[1])
    /\ Cardinality(allocated) = 2
    /\ \A k \in allocated : k \in DOMAIN store /\ store[k][F_id] = PyInt(k)

\* C7: get returns the record stored under the key when the primary-key field is among
\* the arguments, or raises DoesNotExist if there is none; otherwise it returns the single
\* record matching the filters, raises DoesNotExist when none matches and
\* MultipleObjectsFound when two or more match; get never changes the stored records.
C7_GetOutcomes ==
    [][(result'.op = "get")
       => /\ store' = store
          /\ IF HasKw(result'.kwargs, F_id)
             THEN LET pk == KwValue(result'.kwargs, F_id)
                  IN  IF IsInt(pk) /\ pk.int \in DOMAIN store
                      THEN /\ result'.err = ""
                           /\ result'.items = <<from_entity(ClientGet(store, pk.int))>>
                      ELSE result'.err = "DoesNotExist"
             ELSE LET m == Matching(store, result'.kwargs)
                  IN  /\ Cardinality(m) = 0 => result'.err = "DoesNotExist"
                      /\ Cardinality(m) >= 2 => result'.err = "MultipleObjectsFound"
                      /\ Cardinality(m) = 1 =>
                            /\ result'.err = ""
                            /\ \E k \in m : result'.items = <<from_entity(ClientGet(store, k))>>]_vars

\* C8: a record's primary key is immutable once created: every stored record's primary-key
\* field equals the identifier of the key it is stored under, and update(pk, **fields)
\* returns a record whose primary key is pk, whatever fields are passed.
C8_PrimaryKeyImmutable ==
    /\ \A k \in DOMAIN store : store[k][F_id] = PyInt(k)
    /\ (result.op = "update" /\ result.err = "") => result.items[1][F_id] = result.pk

\* C9: over a finite chain of pages _iterate terminates having yielded every item of every
\* page exactly once in page order; the first fetch uses no cursor, each later fetch the
\* token of the page just consumed, and no fetch follows a page without a token.
C9_IterateDrainsTheChain ==
    /\ <>(itpc = "done")
    /\ [](IsPrefix(yielded, Flatten(chain)))
    /\ [](/\ Len(fetches) <= Len(chain)
          /\ \A i \in 1..Len(fetches) :
                fetches[i] = IF i = 1 THEN PyNone ELSE PageAt(chain, i - 1).token)
    /\ [](itpc = "done" => yielded = Flatten(chain) /\ Len(fetches) = Len(chain))

C9_Witness ==
    /\ itpc = "done"
    /\ Len(chain) = 3 /\ chain[2] = <<>> /\ chain[3] # <<>>
    /\ Len(yielded) >= 2
    /\ fetches = <<PyNone, PyInt(1), PyInt(2)>>

ReadFirst == Len(log) >= 2 /\ log[1][1] = "read" /\ log[2][1] = "read"
LastWriter == log[Len(log)][2]
FirstWriter == CHOOSE p \in Procs : p # LastWriter
BothDone == \A p \in Procs : pc[p] = "done"

\* C10: update is a read-merge-write with no version check: when both of two update calls
\* on one key read the stored bag before either writes it, the bag that remains is the
\* one read merged with the last writer's fields alone, so the first writer's change is
\* lost, also when the two calls change different fields.
C10_LastWriteWins ==
    (BothDone /\ ReadFirst) =>
        \A f \in DOMAIN store[RacePk.int] :
            store[RacePk.int][f] =
                IF HasKw(kw[LastWriter], f) THEN KwValue(kw[LastWriter], f) ELSE Bag0[f]

C10_Witness ==
    /\ BothDone /\ ReadFirst
    /\ kw[FirstWriter][1].key # kw[LastWriter][1].key
    /\ kw[FirstWriter][1].value # Bag0[kw[FirstWriter][1].key]
    /\ store[RacePk.int][kw[FirstWriter][1].key] = Bag0[kw[FirstWriter][1].key]

====
